---- MODULE Spec2Model ----
(***************************************************************************)
(* Model of proj2_nps.py: a cache-mediated scraper of the National Park    *)
(* Service site.  Python values are tagged with their type                 *)
(* ([kind |-> "dict" | "list", v |-> ...]); leaf values are strings.       *)
(* The backing file is a sequence of written chunks, each chunk one JSON   *)
(* document or garbage; the web is an environment that answers each        *)
(* request with a page (or a failure) drawn from bounded sets.             *)
(***************************************************************************)
EXTENDS Integers, Sequences, FiniteSets, TLC

VARIABLES
    file,               \* the backing file cache.json: [exists, text]
    CACHE_DICT,         \* the module-level cache of the running process
    pc,                 \* where the process is: start, loaded, choosing, browsing, done, crashed
    states_dict,        \* main: the value build_state_url_dict returned
    nationalsite_list,  \* main: the value get_sites_for_state returned
    requests,           \* network requests issued by this process, per cache key
    loads,              \* load_cache calls of this process
    saves,              \* save_cache calls of this process
    last,               \* the resolver call(s) of the last step, with what they returned
    fetched,            \* per key fetched by this process: the page it was parsed from
    fileAtStart,        \* the backing file as it was when this process started
    lastSaved,          \* the mapping handed to the most recent save_cache
    apiKey,             \* whether secrets.API_KEY exists
    input               \* the line the last step read from the user, if it read one

vars == <<file, CACHE_DICT, pc, states_dict, nationalsite_list, requests, loads,
          saves, last, fetched, fileAtStart, lastSaved, apiKey, input>>

(***************************************************************************)
(* Bounds of the model.                                                    *)
(***************************************************************************)
MaxHeadings == 2
MaxLinks == 2

(***************************************************************************)
(* Module constants (lines 11-14).                                         *)
(***************************************************************************)
BASE_URL == "https://www.nps.gov"
INDEX_URL == "/index.htm"

\* INDEX_URL[1:] (line 213)
INDEX_SUFFIX == SubSeq(INDEX_URL, 2, Len(INDEX_URL))

(***************************************************************************)
(* Strings: str.strip() and str.lower().                                   *)
(***************************************************************************)
IsSpace(c) == c = " "

RECURSIVE lstrip(_)
lstrip(s) ==
    IF Len(s) > 0 /\ IsSpace(SubSeq(s, 1, 1))
    THEN lstrip(SubSeq(s, 2, Len(s)))
    ELSE s

RECURSIVE rstrip(_)
rstrip(s) ==
    IF Len(s) > 0 /\ IsSpace(SubSeq(s, Len(s), Len(s)))
    THEN rstrip(SubSeq(s, 1, Len(s) - 1))
    ELSE s

strip(s) == rstrip(lstrip(s))

UpperCase == "ABCDEFGHIJKLMNOPQRSTUVWXYZ"
LowerCase == "abcdefghijklmnopqrstuvwxyz"

LowerChar(c) ==
    IF \E i \in 1..Len(UpperCase) : SubSeq(UpperCase, i, i) = c
    THEN LET i == CHOOSE j \in 1..Len(UpperCase) : SubSeq(UpperCase, j, j) = c
         IN SubSeq(LowerCase, i, i)
    ELSE c

RECURSIVE lower(_)
lower(s) ==
    IF Len(s) = 0 THEN ""
    ELSE LowerChar(SubSeq(s, 1, 1)) \o lower(SubSeq(s, 2, Len(s)))

Digits == "0123456789"

\* str.isdecimal(): non-empty and every character a digit (line 325)
isdecimal(s) ==
    /\ Len(s) > 0
    /\ \A i \in 1..Len(s) : \E d \in 1..Len(Digits) : SubSeq(Digits, d, d) = SubSeq(s, i, i)

DigitValue(c) == (CHOOSE d \in 1..Len(Digits) : SubSeq(Digits, d, d) = c) - 1

\* int(s) for a decimal string (line 326)
RECURSIVE int(_)
int(s) ==
    IF Len(s) = 0 THEN 0
    ELSE 10 * int(SubSeq(s, 1, Len(s) - 1)) + DigitValue(SubSeq(s, Len(s), Len(s)))

(***************************************************************************)
(* Python dict and list values.                                            *)
(***************************************************************************)
EmptyMap == [k \in {} |-> ""]
PyDict(f) == [kind |-> "dict", v |-> f]
PyList(q) == [kind |-> "list", v |-> q]

\* d[k] = v on a dict's mapping
Put(f, k, v) == [x \in DOMAIN f \cup {k} |-> IF x = k THEN v ELSE f[x]]

\* iteration order of a dict's keys
RECURSIVE KeysOf(_)
KeysOf(S) ==
    IF S = {} THEN <<>>
    ELSE LET x == CHOOSE y \in S : TRUE IN <<x>> \o KeysOf(S \ {x})

Reverse(q) == [i \in 1..Len(q) |-> q[Len(q) + 1 - i]]

(***************************************************************************)
(* JSON text: json.dumps and json.loads.  A document is an object (a       *)
(* sequence of members), an array (a sequence of items) or a string.       *)
(***************************************************************************)
JString(s) == [t |-> "string", s |-> s]
JArray(items) == [t |-> "array", items |-> items]
JObject(members) == [t |-> "object", members |-> members]
Garbage == [t |-> "garbage"]

\* json.dumps of a cached value: a dict or a list of strings
dumps_value(val) ==
    IF val.kind = "dict"
    THEN LET ks == KeysOf(DOMAIN val.v)
         IN JObject([i \in 1..Len(ks) |-> [key |-> ks[i], value |-> JString(val.v[ks[i]])]])
    ELSE JArray([i \in 1..Len(val.v) |-> JString(val.v[i])])

\* json.dumps(cache) (line 94)
json_dumps(cache) ==
    IF cache.kind = "dict"
    THEN LET ks == KeysOf(DOMAIN cache.v)
         IN JObject([i \in 1..Len(ks) |-> [key |-> ks[i], value |-> dumps_value(cache.v[ks[i]])]])
    ELSE JArray([i \in 1..Len(cache.v) |-> dumps_value(cache.v[i])])

\* the value of a JSON object's key: the last member with that key
MemberValue(members, k) ==
    members[CHOOSE i \in 1..Len(members) :
                /\ members[i].key = k
                /\ \A j \in (i + 1)..Len(members) : members[j].key # k].value

\* json.loads of a nested document
loads_value(doc) ==
    IF doc.t = "object"
    THEN PyDict([k \in {doc.members[i].key : i \in 1..Len(doc.members)} |->
                    MemberValue(doc.members, k).s])
    ELSE PyList([i \in 1..Len(doc.items) |-> doc.items[i].s])

\* json.loads(cache_file_contents) (line 75): the text must be exactly one document
json_loads(text) ==
    IF Len(text) # 1 \/ text[1].t = "garbage"
    THEN [raised |-> TRUE, value |-> PyDict(EmptyMap)]
    ELSE IF text[1].t = "object"
    THEN [raised |-> FALSE,
          value |-> PyDict([k \in {text[1].members[i].key : i \in 1..Len(text[1].members)} |->
                               loads_value(MemberValue(text[1].members, k))])]
    ELSE [raised |-> FALSE,
          value |-> PyList([i \in 1..Len(text[1].items) |-> loads_value(text[1].items[i])])]

(***************************************************************************)
(* The cache store (lines 60-96).                                          *)
(***************************************************************************)
\* load_cache: any failure of open/read/loads gives {} (bare except, line 77)
load_cache_strict(f) ==
    IF ~f.exists
    THEN [raised |-> FALSE, value |-> PyDict(EmptyMap)]
    ELSE json_loads(f.text)
load_cache(f) ==
    IF ~f.exists
    THEN [raised |-> FALSE, value |-> PyDict(EmptyMap)]
    ELSE LET r == json_loads(f.text)
         IN IF r.raised
            THEN [raised |-> FALSE, value |-> PyDict(EmptyMap)]
            ELSE [raised |-> FALSE, value |-> r.value]

\* save_cache: open(..., 'w') truncates, then one write of json.dumps(cache)
save_cache_append(f, cache) ==
    [exists |-> TRUE, text |-> f.text \o <<json_dumps(cache)>>]
save_cache(f, cache) == [exists |-> TRUE, text |-> <<json_dumps(cache)>>]

(***************************************************************************)
(* The web: what requests.get can answer.  A tag that find() does not find *)
(* is NoTag (Python None); a response that is not ok stands for any        *)
(* exception of requests.get or of .json().                                *)
(***************************************************************************)
Tag(text) == [present |-> TRUE, text |-> text]
NoTag == [present |-> FALSE, text |-> ""]
Failure == [ok |-> FALSE]
Ok(page) == [ok |-> TRUE, page |-> page]
None == [kind |-> "none"]

\* a state page: the parkListResultsArea div and the hrefs of its h3 anchors
Hrefs == {"/isro/", "/kewe/"}
HeadingSeqs == UNION {[1..n -> Hrefs] : n \in 0..MaxHeadings}
StatePages ==
    {[container |-> TRUE, headings |-> h] : h \in HeadingSeqs}
        \cup {[container |-> FALSE, headings |-> <<>>]}
StateResponses == {Ok(p) : p \in StatePages} \cup {Failure}

\* a detail page: the hero block (title anchor, designation span) and the vcard
DetailPage(hero, title, designation, vcard, locality, region, postal, phone) ==
    [hero |-> hero, title |-> title, designation |-> designation, vcard |-> vcard,
     spans |-> [addressLocality |-> locality, addressRegion |-> region,
                postalCode |-> postal, telephone |-> phone]]

\* the places API: a decoded JSON object, with or without searchResults
ApiResponses ==
    { Ok(PyDict([searchResults |-> "places"])),
      Ok(PyDict([info |-> "unknown origin"])),
      Failure }

(***************************************************************************)
(* Cache access shared by the four resolvers.                              *)
(***************************************************************************)
IsDict(cache) == cache.kind = "dict"

\* CACHE_DICT[key] = value (lines 123, 150, 215, 266)
StoreAlone(cache, key, value) == PyDict(Put(EmptyMap, key, value))
StoreNothing(cache, key, value) == cache
Store(cache, key, value) == PyDict(Put(cache.v, key, value))

\* not (key not in CACHE_DICT.keys()) (lines 113, 143, 203, 263)
NeverCached(cache, key) == FALSE
Cached(cache, key) == key \in DOMAIN cache.v

Count(reqs, key) == IF key \in DOMAIN reqs THEN reqs[key] ELSE 0
\* requests.get for the page or query behind key
Request(reqs, key) == Put(reqs, key, Count(reqs, key) + 1)

Raise(cache, reqs) == [cache |-> cache, requests |-> reqs, raised |-> TRUE, ret |-> None]
Return(cache, reqs, ret) == [cache |-> cache, requests |-> reqs, raised |-> FALSE, ret |-> ret]

(***************************************************************************)
(* build_state_url_dict (lines 99-127).                                    *)
(***************************************************************************)
main_page_url == BASE_URL \o INDEX_URL

\* the loop of lines 120-122: a later link with the same text replaces an earlier
RECURSIVE state_links_verbatim(_, _)
state_links_verbatim(links, output) ==
    IF Len(links) = 0 THEN output
    ELSE state_links_verbatim(Tail(links),
                              Put(output, Head(links).text, BASE_URL \o Head(links).href))
RECURSIVE state_links(_, _)
state_links(links, output) ==
    IF Len(links) = 0 THEN output
    ELSE state_links(Tail(links),
                     Put(output, lower(Head(links).text), BASE_URL \o Head(links).href))

build_state_url_dict(cache, reqs, resp) ==
    IF ~IsDict(cache) THEN Raise(cache, reqs)
    ELSE IF ~Cached(cache, main_page_url)
    THEN LET reqs1 == Request(reqs, main_page_url)
         IN IF ~resp.ok THEN Raise(cache, reqs1)
            ELSE IF ~resp.page.container THEN Raise(cache, reqs1)
            ELSE LET output == PyDict(state_links(resp.page.links, EmptyMap))
                 IN Return(Store(cache, main_page_url, output), reqs1, output)
    ELSE Return(cache, reqs, cache.v[main_page_url])

(***************************************************************************)
(* get_site_instance (lines 130-187).                                      *)
(***************************************************************************)
SiteFields == {"name", "category", "address", "zipcode", "phone"}

\* the keyword defaults of NationalSite.__init__ (lines 37-39)
NationalSite(name, category, address, zipcode, phone) ==
    [kind |-> "NationalSite",
     v |-> [name |-> name, category |-> category, address |-> address,
            zipcode |-> zipcode, phone |-> phone]]

\* lines 167-173: one address-card span, defaulted to 'no <key>'
item_default_unstripped(key, span) ==
    IF ~span.present THEN "no " \o key
    ELSE IF span.text # "" THEN strip(span.text) ELSE "no " \o key
item_default(key, span) ==
    IF ~span.present THEN "no " \o key
    ELSE IF strip(span.text) # "" THEN strip(span.text) ELSE "no " \o key

\* lines 161-173: itemprop_dict and the loop over it
item_dict_of(spans) ==
    [address |-> item_default("address", spans.addressLocality),
     state |-> item_default("state", spans.addressRegion),
     zipcode |-> item_default("zipcode", spans.postalCode),
     phone |-> item_default("phone", spans.telephone)]

\* lines 183-187: the NationalSite built from the cache entry
site_from_entry(cache, reqs, site_url) ==
    LET entry == cache.v[site_url]
    IN IF entry.kind = "dict" /\ SiteFields \subseteq DOMAIN entry.v
       THEN Return(cache, reqs,
                   NationalSite(entry.v["name"], entry.v["category"], entry.v["address"],
                                entry.v["zipcode"], entry.v["phone"]))
       ELSE Raise(cache, reqs)

get_site_instance(cache, reqs, site_url, resp) ==
    IF ~IsDict(cache) THEN Raise(cache, reqs)
    ELSE IF ~Cached(cache, site_url)
    THEN LET reqs1 == Request(reqs, site_url)
         IN IF ~resp.ok THEN Raise(cache, reqs1)
            \* lines 147-149: None.find, None.get_text
            ELSE IF ~resp.page.hero \/ ~resp.page.title.present THEN Raise(cache, reqs1)
            ELSE LET park_name_info == strip(resp.page.title.text)
                     c1 == Store(cache, site_url,
                                 PyDict([name |-> park_name_info,
                                         category |-> "no category",
                                         address |-> "no address",
                                         zipcode |-> "no zipcode",
                                         phone |-> "no phone"]))
                 \* lines 155-156: None.get_text
                 IN IF ~resp.page.designation.present THEN Raise(c1, reqs1)
                    ELSE LET category_info == strip(resp.page.designation.text)
                             c2 == Store(c1, site_url,
                                         PyDict(Put(c1.v[site_url].v, "category",
                                                    IF category_info # "" THEN category_info
                                                    ELSE "no category")))
                         \* line 167: None.find
                         IN IF ~resp.page.vcard THEN Raise(c2, reqs1)
                            ELSE LET item_dict == item_dict_of(resp.page.spans)
                                     address == item_dict.address \o ", " \o item_dict.state
                                     e1 == Put(c2.v[site_url].v, "address", address)
                                     e2 == Put(e1, "zipcode", item_dict.zipcode)
                                     e3 == Put(e2, "phone", item_dict.phone)
                                 IN site_from_entry(Store(c2, site_url, PyDict(e3)),
                                                    reqs1, site_url)
    ELSE site_from_entry(cache, reqs, site_url)

(***************************************************************************)
(* What one resolver call did, as a caller (or a test) observes it: the    *)
(* cache entry of its key before and after, the requests it issued for     *)
(* that key, and what it returned.                                         *)
(***************************************************************************)
Entry(cache, key) ==
    IF IsDict(cache) /\ key \in DOMAIN cache.v THEN cache.v[key] ELSE None

CallRecord(fn, key, cache, reqs, r, resp) ==
    [fn |-> fn, key |-> key,
     had |-> IsDict(cache) /\ key \in DOMAIN cache.v,
     before |-> Entry(cache, key),
     after |-> Entry(r.cache, key),
     sent |-> Count(r.requests, key) - Count(reqs, key),
     raised |-> r.raised,
     ret |-> r.ret,
     resp |-> IF Count(r.requests, key) > Count(reqs, key) THEN resp ELSE None]

\* the pages this process has parsed, per key
RECURSIVE Fetched(_, _)
Fetched(f, calls) ==
    IF Len(calls) = 0 THEN f
    ELSE LET c == Head(calls)
         IN Fetched(IF c.sent > 0 /\ c.resp.ok THEN Put(f, c.key, c.resp.page) ELSE f,
                    Tail(calls))

(***************************************************************************)
(* get_sites_for_state (lines 190-220).                                    *)
(***************************************************************************)
SiteList(sites) == [kind |-> "list of NationalSite", v |-> sites]

\* lines 210-214: one detail URL per heading, in page order
parks_list_reversed(headings) ==
    [i \in 1..Len(headings) |->
        BASE_URL \o headings[Len(headings) + 1 - i] \o INDEX_SUFFIX]
parks_list_of(headings) ==
    [i \in 1..Len(headings) |-> BASE_URL \o headings[i] \o INDEX_SUFFIX]

\* what the web answers for a detail URL
SiteResponse(siteResp, url) ==
    IF url \in DOMAIN siteResp THEN siteResp[url] ELSE Failure

\* iterating a cached value: a list's items, a dict's keys
IterOf(val) == IF val.kind = "list" THEN val.v ELSE KeysOf(DOMAIN val.v)

\* line 220: get_site_instance for each URL in order; the first exception ends it
RECURSIVE site_instances(_, _, _, _, _, _)
site_instances(cache, reqs, urls, siteResp, sites, calls) ==
    IF Len(urls) = 0
    THEN [cache |-> cache, requests |-> reqs, raised |-> FALSE,
          ret |-> SiteList(sites), calls |-> calls]
    ELSE LET resp == SiteResponse(siteResp, Head(urls))
             r == get_site_instance(cache, reqs, Head(urls), resp)
             c == CallRecord("get_site_instance", Head(urls), cache, reqs, r, resp)
         IN IF r.raised
            THEN [cache |-> r.cache, requests |-> r.requests, raised |-> TRUE,
                  ret |-> None, calls |-> Append(calls, c)]
            ELSE site_instances(r.cache, r.requests, Tail(urls), siteResp,
                                Append(sites, r.ret), Append(calls, c))

get_sites_for_state(cache, reqs, state_url, resp, siteResp) ==
    IF ~IsDict(cache)
    THEN [cache |-> cache, requests |-> reqs, raised |-> TRUE, ret |-> None, calls |-> <<>>]
    ELSE IF ~Cached(cache, state_url)
    THEN LET reqs1 == Request(reqs, state_url)
         IN IF ~resp.ok \/ ~resp.page.container
            THEN [cache |-> cache, requests |-> reqs1, raised |-> TRUE,
                  ret |-> None, calls |-> <<>>]
            ELSE LET parks_list == parks_list_of(resp.page.headings)
                 IN site_instances(Store(cache, state_url, PyList(parks_list)), reqs1,
                                   parks_list, siteResp, <<>>, <<>>)
    ELSE site_instances(cache, reqs, IterOf(cache.v[state_url]), siteResp, <<>>, <<>>)

(***************************************************************************)
(* get_nearby_places and print_nearby_places (lines 245-299).              *)
(***************************************************************************)
get_nearby_places_key_late(cache, reqs, site_object, resp, key) ==
    LET zipcode == site_object.v.zipcode
    IN  IF ~IsDict(cache) THEN Raise(cache, reqs)
        ELSE IF ~Cached(cache, zipcode)
        THEN IF ~key THEN Raise(cache, reqs)
             ELSE LET reqs1 == Request(reqs, zipcode)
                  IN IF ~resp.ok THEN Raise(cache, reqs1)
                     ELSE Return(Store(cache, zipcode, resp.page), reqs1, resp.page)
        ELSE Return(cache, reqs, cache.v[zipcode])
get_nearby_places(cache, reqs, site_object, resp, key) ==
    LET zipcode == site_object.v.zipcode
    IN  \* line 260: secrets.API_KEY is read before the cache is looked at
        IF ~key THEN Raise(cache, reqs)
        ELSE IF ~IsDict(cache) THEN Raise(cache, reqs)
        ELSE IF ~Cached(cache, zipcode)
        THEN LET reqs1 == Request(reqs, zipcode)
             IN IF ~resp.ok THEN Raise(cache, reqs1)
                ELSE Return(Store(cache, zipcode, resp.page), reqs1, resp.page)
        ELSE Return(cache, reqs, cache.v[zipcode])

\* line 287: nearby_places['searchResults'] raises when the key is missing
print_nearby_places_raises(nearby_places) ==
    ~(nearby_places.kind = "dict" /\ "searchResults" \in DOMAIN nearby_places.v)

(***************************************************************************)
(* The environment of a session: detail pages, user inputs, initial files. *)
(***************************************************************************)
SiteUrls == {BASE_URL \o h \o INDEX_SUFFIX : h \in Hrefs}

\* the web of a session: two states that list the same two sites in opposite order,
\* a site with a complete page and a site without postal code and with blank leaves
SessionDirPage ==
    [container |-> TRUE,
     links |-> <<[text |-> "Michigan", href |-> "/state/mi/index.htm"],
                 [text |-> "Ohio", href |-> "/state/oh/index.htm"]>>]
SessionStatePage(state_url) ==
    [container |-> TRUE,
     headings |-> IF state_url = BASE_URL \o "/state/mi/index.htm"
                  THEN <<"/isro/", "/kewe/">>
                  ELSE <<"/kewe/", "/isro/">>]
SessionDetailPage(site_url) ==
    IF site_url = BASE_URL \o "/isro/" \o INDEX_SUFFIX
    THEN DetailPage(TRUE, Tag("Isle Royale"), Tag("National Park"), TRUE,
                    Tag("Houghton"), Tag("MI"), Tag(" 49931 "), Tag("(906) 482-0984"))
    ELSE DetailPage(TRUE, Tag(" Keweenaw "), Tag(" "), TRUE,
                    Tag("Calumet"), Tag("MI"), NoTag, Tag(""))

\* each request is answered by the page, by a page that lacks a required element,
\* or not at all
SessionDirResponses ==
    {Ok(SessionDirPage), Ok([container |-> FALSE, links |-> <<>>]), Failure}
SessionStateResponses(state_url) ==
    {Ok(SessionStatePage(state_url)), Ok([container |-> FALSE, headings |-> <<>>]), Failure}
SessionDetailResponses(site_url) ==
    {Ok(SessionDetailPage(site_url)),
     Ok([SessionDetailPage(site_url) EXCEPT !.designation = NoTag]),
     Failure}
SessionSiteResponses ==
    {f \in [SiteUrls -> UNION {SessionDetailResponses(u) : u \in SiteUrls}] :
        \A u \in SiteUrls : f[u] \in SessionDetailResponses(u)}

StateInputs == {"exit", "Exit", "Michigan", "ohio", "atlantis"}
NumberInputs == {"0", "1", "2", "3", "4", "exit", "back", "one"}

\* cache.json before the first run: absent, empty, not JSON, or JSON that is no object
InitialFiles ==
    { [exists |-> FALSE, text |-> <<>>],
      [exists |-> TRUE, text |-> <<>>],
      [exists |-> TRUE, text |-> <<Garbage>>],
      [exists |-> TRUE, text |-> <<JArray(<<>>)>>] }

(***************************************************************************)
(* __main__ (lines 302-348), one action per step of the interactive loop.  *)
(***************************************************************************)
\* line 348 is reached only when no exception ended the loop
end_of_main_finally(f, n, cache, raised) ==
    [file |-> save_cache(f, cache), saves |-> n + 1]
end_of_main_unsaved(f, n, cache, raised) == [file |-> f, saves |-> n]
end_of_main(f, n, cache, raised) ==
    IF raised THEN [file |-> f, saves |-> n]
    ELSE [file |-> save_cache(f, cache), saves |-> n + 1]

\* the process ends: normally (break, then line 348) or by an uncaught exception
Terminate(raised, cache) ==
    LET e == end_of_main(file, saves, cache, raised)
    IN /\ file' = e.file
       /\ saves' = e.saves
       /\ lastSaved' = IF e.saves > saves THEN cache ELSE lastSaved
       /\ pc' = IF raised THEN "crashed" ELSE "done"

\* line 304
Load ==
    /\ pc = "start"
    /\ LET r == load_cache(file)
       IN /\ CACHE_DICT' = r.value
          /\ pc' = IF r.raised THEN "crashed" ELSE "loaded"
    /\ loads' = loads + 1
    /\ last' = <<>>
    /\ input' = <<>>
    /\ UNCHANGED <<file, states_dict, nationalsite_list, requests, saves, fetched,
                   fileAtStart, lastSaved, apiKey>>

\* line 305
BuildStates ==
    /\ pc = "loaded"
    /\ \E resp \in SessionDirResponses :
          LET r == build_state_url_dict(CACHE_DICT, requests, resp)
              c == CallRecord("build_state_url_dict", main_page_url,
                              CACHE_DICT, requests, r, resp)
          IN /\ CACHE_DICT' = r.cache
             /\ requests' = r.requests
             /\ states_dict' = r.ret
             /\ last' = <<c>>
             /\ fetched' = Fetched(fetched, <<c>>)
             /\ IF r.raised
                THEN Terminate(TRUE, r.cache)
                ELSE /\ pc' = "choosing"
                     /\ UNCHANGED <<file, saves, lastSaved>>
    /\ input' = <<>>
    /\ UNCHANGED <<nationalsite_list, loads, fileAtStart, apiKey>>

\* lines 311-314: "exit" at the first prompt
ChooseExit ==
    /\ pc = "choosing"
    /\ \E inp \in StateInputs :
          /\ lower(inp) = "exit"
          /\ input' = <<inp>>
          /\ Terminate(FALSE, CACHE_DICT)
    /\ last' = <<>>
    /\ UNCHANGED <<CACHE_DICT, states_dict, nationalsite_list, requests, loads, fetched,
                   fileAtStart, apiKey>>

\* lines 315-317: an unknown state name
ChooseInvalid_fatal ==
    /\ pc = "choosing"
    /\ \E inp \in StateInputs :
          /\ lower(inp) # "exit"
          /\ lower(inp) \notin DOMAIN states_dict.v
          /\ input' = <<inp>>
    /\ Terminate(TRUE, CACHE_DICT)
    /\ last' = <<>>
    /\ UNCHANGED <<CACHE_DICT, states_dict, nationalsite_list, requests, loads, fetched,
                   fileAtStart, apiKey>>
ChooseInvalid ==
    /\ pc = "choosing"
    /\ \E inp \in StateInputs :
          /\ lower(inp) # "exit"
          /\ lower(inp) \notin DOMAIN states_dict.v
          /\ input' = <<inp>>
    /\ last' = <<>>
    /\ UNCHANGED <<file, CACHE_DICT, pc, states_dict, nationalsite_list, requests, loads,
                   saves, fetched, fileAtStart, lastSaved, apiKey>>

\* lines 318-321: a known state name
ChooseState ==
    /\ pc = "choosing"
    /\ \E inp \in StateInputs :
          /\ lower(inp) # "exit"
          /\ lower(inp) \in DOMAIN states_dict.v
          /\ input' = <<inp>>
          /\ \E resp \in SessionStateResponses(states_dict.v[lower(inp)]),
                siteResp \in SessionSiteResponses :
             LET state_url == states_dict.v[lower(inp)]
                 r == get_sites_for_state(CACHE_DICT, requests, state_url, resp, siteResp)
                 c == CallRecord("get_sites_for_state", state_url,
                                 CACHE_DICT, requests, r, resp)
             IN /\ CACHE_DICT' = r.cache
                /\ requests' = r.requests
                /\ last' = <<c>> \o r.calls
                /\ fetched' = Fetched(fetched, <<c>> \o r.calls)
                /\ IF r.raised
                   THEN /\ Terminate(TRUE, r.cache)
                        /\ UNCHANGED nationalsite_list
                   ELSE /\ pc' = "browsing"
                        /\ nationalsite_list' = r.ret
                        /\ UNCHANGED <<file, saves, lastSaved>>
    /\ UNCHANGED <<states_dict, loads, fileAtStart, apiKey>>

\* line 327: nationalsite_list[int(number)-1]; Python counts from 0 and a negative
\* index counts from the end, sequences here count from 1
selected_site_shifted(sites, number) ==
    IF int(number) - 2 >= 0 THEN sites.v[int(number) - 1]
    ELSE sites.v[Len(sites.v) + (int(number) - 2) + 1]
selected_site(sites, number) ==
    IF int(number) - 1 >= 0 THEN sites.v[(int(number) - 1) + 1]
    ELSE sites.v[Len(sites.v) + (int(number) - 1) + 1]

\* line 328
no_zipcode_never(national_site) == FALSE
no_zipcode(national_site) == national_site.v.zipcode = "no zipcode"

\* lines 325-335: a number in range
SelectSite ==
    /\ pc = "browsing"
    /\ \E number \in NumberInputs :
          /\ isdecimal(number)
          /\ 1 <= int(number)
          /\ int(number) <= Len(nationalsite_list.v)
          /\ input' = <<number>>
          /\ \E resp \in ApiResponses :
             LET national_site == selected_site(nationalsite_list, number)
             IN IF no_zipcode(national_site)
                THEN /\ last' = <<>>
                     /\ UNCHANGED <<file, CACHE_DICT, pc, requests, saves, fetched,
                                    lastSaved>>
                ELSE LET r == get_nearby_places(CACHE_DICT, requests, national_site,
                                                resp, apiKey)
                         c == CallRecord("get_nearby_places", national_site.v.zipcode,
                                         CACHE_DICT, requests, r, resp)
                     IN /\ CACHE_DICT' = r.cache
                        /\ requests' = r.requests
                        /\ last' = <<c>>
                        /\ fetched' = Fetched(fetched, <<c>>)
                        /\ IF r.raised \/ print_nearby_places_raises(r.ret)
                           THEN Terminate(TRUE, r.cache)
                           ELSE UNCHANGED <<file, pc, saves, lastSaved>>
    /\ UNCHANGED <<states_dict, nationalsite_list, loads, fileAtStart, apiKey>>

\* lines 336-339: "exit" at the second prompt
BrowseExit ==
    /\ pc = "browsing"
    /\ \E number \in NumberInputs :
          /\ ~(isdecimal(number) /\ 1 <= int(number)
                 /\ int(number) <= Len(nationalsite_list.v))
          /\ number = "exit"
          /\ input' = <<number>>
          /\ Terminate(FALSE, CACHE_DICT)
    /\ last' = <<>>
    /\ UNCHANGED <<CACHE_DICT, states_dict, nationalsite_list, requests, loads, fetched,
                   fileAtStart, apiKey>>

\* lines 340-342: "back"
BrowseBack_ends ==
    /\ pc = "browsing"
    /\ \E number \in NumberInputs :
          /\ ~(isdecimal(number) /\ 1 <= int(number)
                 /\ int(number) <= Len(nationalsite_list.v))
          /\ number # "exit"
          /\ number = "back"
          /\ input' = <<number>>
    /\ Terminate(FALSE, CACHE_DICT)
    /\ last' = <<>>
    /\ UNCHANGED <<CACHE_DICT, states_dict, nationalsite_list, requests, loads, fetched,
                   fileAtStart, apiKey>>
BrowseBack ==
    /\ pc = "browsing"
    /\ \E number \in NumberInputs :
          /\ ~(isdecimal(number) /\ 1 <= int(number)
                 /\ int(number) <= Len(nationalsite_list.v))
          /\ number # "exit"
          /\ number = "back"
          /\ input' = <<number>>
    /\ pc' = "choosing"
    /\ last' = <<>>
    /\ UNCHANGED <<file, CACHE_DICT, states_dict, nationalsite_list, requests, loads,
                   saves, fetched, fileAtStart, lastSaved, apiKey>>

\* lines 343-346: anything else
BrowseInvalid ==
    /\ pc = "browsing"
    /\ \E number \in NumberInputs :
          /\ ~(isdecimal(number) /\ 1 <= int(number)
                 /\ int(number) <= Len(nationalsite_list.v))
          /\ number # "exit"
          /\ number # "back"
          /\ input' = <<number>>
    /\ last' = <<>>
    /\ UNCHANGED <<file, CACHE_DICT, pc, states_dict, nationalsite_list, requests, loads,
                   saves, fetched, fileAtStart, lastSaved, apiKey>>

\* the program is run again: a new process, CACHE_DICT = {} (line 14); secrets.py
\* may have been added or removed in between
Restart ==
    /\ pc \in {"done", "crashed"}
    /\ pc' = "start"
    /\ CACHE_DICT' = PyDict(EmptyMap)
    /\ states_dict' = None
    /\ nationalsite_list' = None
    /\ requests' = EmptyMap
    /\ loads' = 0
    /\ saves' = 0
    /\ last' = <<>>
    /\ fetched' = EmptyMap
    /\ fileAtStart' = file
    /\ apiKey' \in BOOLEAN
    /\ input' = <<>>
    /\ UNCHANGED <<file, lastSaved>>

Init ==
    /\ file \in InitialFiles
    /\ apiKey \in BOOLEAN
    /\ CACHE_DICT = PyDict(EmptyMap)
    /\ pc = "start"
    /\ states_dict = None
    /\ nationalsite_list = None
    /\ requests = EmptyMap
    /\ loads = 0
    /\ saves = 0
    /\ last = <<>>
    /\ fetched = EmptyMap
    /\ fileAtStart = file
    /\ lastSaved = None
    /\ input = <<>>

Next ==
    \/ Load
    \/ BuildStates
    \/ ChooseExit
    \/ ChooseInvalid
    \/ ChooseState
    \/ SelectSite
    \/ BrowseExit
    \/ BrowseBack
    \/ BrowseInvalid
    \/ Restart

Spec == Init /\ [][Next]_vars

(***************************************************************************)
(* get_site_instance called directly, twice on one URL: first against an   *)
(* empty cache, then against the cache the first call left.  The detail    *)
(* page is any combination of missing, empty, blank and padded elements.   *)
(***************************************************************************)
UnitSiteUrl == BASE_URL \o "/isro/" \o INDEX_SUFFIX

TagOptions(text) == {NoTag, Tag(""), Tag(" "), Tag(" " \o text \o " ")}

DetailPages ==
    {DetailPage(TRUE, t, d, TRUE, l, r, z, p) :
        t \in TagOptions("Isle Royale"), d \in TagOptions("National Park"),
        l \in TagOptions("Houghton"), r \in TagOptions("MI"),
        z \in TagOptions("49931"), p \in TagOptions("(906) 482-0984")}
    \cup {DetailPage(TRUE, t, d, FALSE, NoTag, NoTag, NoTag, NoTag) :
            t \in TagOptions("Isle Royale"), d \in TagOptions("National Park")}
    \cup {DetailPage(FALSE, NoTag, NoTag, FALSE, NoTag, NoTag, NoTag, NoTag)}
DetailResponses == {Ok(p) : p \in DetailPages} \cup {Failure}

\* the harness keeps every NationalSite returned, in call order, in nationalsite_list
CallSite(from, to, responses) ==
    /\ pc = from
    /\ \E resp \in responses :
          LET r == get_site_instance(CACHE_DICT, requests, UnitSiteUrl, resp)
              c == CallRecord("get_site_instance", UnitSiteUrl,
                              CACHE_DICT, requests, r, resp)
          IN /\ CACHE_DICT' = r.cache
             /\ requests' = r.requests
             /\ last' = <<c>>
             /\ fetched' = Fetched(fetched, <<c>>)
             /\ nationalsite_list' =
                   IF r.raised THEN nationalsite_list
                   ELSE SiteList(Append(nationalsite_list.v, r.ret))
    /\ pc' = to
    /\ UNCHANGED <<file, states_dict, loads, saves, fileAtStart, lastSaved, apiKey, input>>

InitUnit(at) ==
    /\ file = [exists |-> FALSE, text |-> <<>>]
    /\ apiKey = TRUE
    /\ CACHE_DICT = PyDict(EmptyMap)
    /\ pc = at
    /\ states_dict = None
    /\ nationalsite_list = SiteList(<<>>)
    /\ requests = EmptyMap
    /\ loads = 0
    /\ saves = 0
    /\ last = <<>>
    /\ fetched = EmptyMap
    /\ fileAtStart = file
    /\ lastSaved = None
    /\ input = <<>>

InitSite == InitUnit("site_cold")

NextSite ==
    \/ CallSite("site_cold", "site_warm", DetailResponses)
    \/ CallSite("site_warm", "site_end", SessionDetailResponses(UnitSiteUrl))

SpecSite == InitSite /\ [][NextSite]_vars

(***************************************************************************)
(* get_sites_for_state called directly: twice on one state URL, then on a  *)
(* second one.  The state page has any sequence of up to MaxHeadings       *)
(* headings.                                                               *)
(***************************************************************************)
UnitStateUrl == BASE_URL \o "/state/mi/index.htm"
OtherStateUrl == BASE_URL \o "/state/oh/index.htm"

CallList(from, to, state_url) ==
    /\ pc = from
    /\ \E resp \in StateResponses, siteResp \in SessionSiteResponses :
          LET r == get_sites_for_state(CACHE_DICT, requests, state_url, resp, siteResp)
              c == CallRecord("get_sites_for_state", state_url,
                              CACHE_DICT, requests, r, resp)
          IN /\ CACHE_DICT' = r.cache
             /\ requests' = r.requests
             /\ last' = <<c>> \o r.calls
             /\ fetched' = Fetched(fetched, <<c>> \o r.calls)
             /\ nationalsite_list' = IF r.raised THEN nationalsite_list ELSE r.ret
    /\ pc' = to
    /\ UNCHANGED <<file, states_dict, loads, saves, fileAtStart, lastSaved, apiKey, input>>

InitList == InitUnit("list_cold")

NextList ==
    \/ CallList("list_cold", "list_warm", UnitStateUrl)
    \/ CallList("list_warm", "list_other", UnitStateUrl)
    \/ CallList("list_other", "list_end", OtherStateUrl)

SpecList == InitList /\ [][NextList]_vars

(***************************************************************************)
(* build_state_url_dict called directly, twice: first against an empty     *)
(* cache, then against the cache the first call left.  The directory page  *)
(* has any sequence of up to MaxLinks links in its keyword-search list.    *)
(***************************************************************************)
LinkTexts == {"Michigan", "michigan", "Ohio", "American Samoa"}
LinkHrefs == {"/state/mi/index.htm", "/state/oh/index.htm"}
Links == [text : LinkTexts, href : LinkHrefs]
LinkSeqs == UNION {[1..n -> Links] : n \in 0..MaxLinks}
DirPages ==
    {[container |-> TRUE, links |-> l] : l \in LinkSeqs}
    \cup {[container |-> FALSE, links |-> <<>>]}
DirResponses == {Ok(p) : p \in DirPages} \cup {Failure}

CallDir(from, to, responses) ==
    /\ pc = from
    /\ \E resp \in responses :
          LET r == build_state_url_dict(CACHE_DICT, requests, resp)
              c == CallRecord("build_state_url_dict", main_page_url,
                              CACHE_DICT, requests, r, resp)
          IN /\ CACHE_DICT' = r.cache
             /\ requests' = r.requests
             /\ last' = <<c>>
             /\ fetched' = Fetched(fetched, <<c>>)
             /\ states_dict' = IF r.raised THEN states_dict ELSE r.ret
    /\ pc' = to
    /\ UNCHANGED <<file, nationalsite_list, loads, saves, fileAtStart, lastSaved, apiKey,
                   input>>

InitDir == InitUnit("dir_cold")

NextDir ==
    \/ CallDir("dir_cold", "dir_warm", DirResponses)
    \/ CallDir("dir_warm", "dir_end", SessionDirResponses)

SpecDir == InitDir /\ [][NextDir]_vars

(***************************************************************************)
(* Properties.                                                             *)
(***************************************************************************)
\* a returned value is the stored one: a NationalSite carries the five fields of the
\* cached record, any other value is the cached value itself
SameAsStored(ret, stored) ==
    IF ret.kind = "NationalSite"
    THEN stored.kind = "dict" /\ ret.v = stored.v
    ELSE ret = stored

\* C1 as stated: every resolver call that finds its key cached issues no request for
\* it, leaves the entry unchanged and returns the stored value; every call that does
\* not find it (and returns) issues exactly one request for it, stores the result
\* under the key and returns that same result.
C1_ReturnsStoredValue ==
    \A i \in DOMAIN last :
        LET c == last[i]
        IN /\ c.had =>
                /\ c.sent = 0
                /\ c.after = c.before
                /\ ~c.raised => SameAsStored(c.ret, c.before)
           /\ (~c.had /\ ~c.raised) =>
                /\ c.sent = 1
                /\ c.after # None
                /\ SameAsStored(c.ret, c.after)

\* what get_sites_for_state returns for the stored URL sequence: one NationalSite per
\* URL, in order, each carrying the record the cache holds for that URL
SitesOfStored(ret, stored) ==
    /\ ret.kind = "list of NationalSite"
    /\ stored.kind = "list"
    /\ Len(ret.v) = Len(stored.v)
    /\ \A j \in 1..Len(stored.v) :
          SameAsStored(ret.v[j], Entry(CACHE_DICT, stored.v[j]))

\* C1 amended: as C1 for build_state_url_dict, get_site_instance and
\* get_nearby_places; get_sites_for_state obeys the same hit/miss discipline for its
\* key but returns the NationalSite values resolved from the stored URL sequence.
C1_FetchOrReuse ==
    \A i \in DOMAIN last :
        LET c == last[i]
            Returned(stored) ==
                IF c.fn = "get_sites_for_state"
                THEN SitesOfStored(c.ret, stored)
                ELSE SameAsStored(c.ret, stored)
        IN /\ c.had =>
                /\ c.sent = 0
                /\ c.after = c.before
                /\ ~c.raised => Returned(c.before)
           /\ (~c.had /\ ~c.raised) =>
                /\ c.sent = 1
                /\ c.after # None
                /\ Returned(c.after)

\* a state page fetched on a miss while both of its sites are served from the cache
C1_Witness ==
    /\ Len(last) = 3
    /\ last[1].fn = "get_sites_for_state"
    /\ ~last[1].had
    /\ ~last[1].raised
    /\ last[2].had
    /\ last[3].had
    /\ pc = "browsing"

\* C2: get_site_instance called on a URL the cache does not hold, then on the same
\* URL against the resulting cache, returns two NationalSite values equal field for
\* field, and the second call issues no network request.
C2_SiteIdempotent ==
    (pc = "site_end" /\ Len(nationalsite_list.v) = 2) =>
        /\ \A f \in SiteFields :
              nationalsite_list.v[1].v[f] = nationalsite_list.v[2].v[f]
        /\ last[1].sent = 0
        /\ Count(requests, UnitSiteUrl) = 1

C2_Witness ==
    /\ pc = "site_end"
    /\ Len(nationalsite_list.v) = 2
    /\ nationalsite_list.v[2].v.zipcode = "49931"
    /\ nationalsite_list.v[2].v.phone = "no phone"

\* the keys of the JSON object the backing file holds
FileKeys(f) == {f.text[1].members[i].key : i \in 1..Len(f.text[1].members)}

\* C3: in a run that ends normally the cache is loaded exactly once, before any
\* resolver runs, and written exactly once, after the last resolver call; the file
\* then holds the in-memory cache, with every entry fetched during the session.
C3_LoadOnceSaveOnce ==
    /\ pc = "start" =>
          /\ loads = 0
          /\ requests = EmptyMap
          /\ fetched = EmptyMap
          /\ states_dict = None
    /\ pc # "start" => loads = 1
    /\ pc \in {"start", "loaded", "choosing", "browsing"} => saves = 0
    /\ pc = "done" =>
          /\ saves = 1
          /\ last = <<>>
          /\ lastSaved = CACHE_DICT
          /\ file.exists
          /\ file.text = <<json_dumps(CACHE_DICT)>>
          /\ load_cache(file).value = CACHE_DICT
          /\ \A k \in DOMAIN fetched :
                k \in DOMAIN CACHE_DICT.v /\ k \in FileKeys(file)

\* a normal exit after a session that fetched the directory, a state and a zipcode
C3_Witness ==
    /\ pc = "done"
    /\ saves = 1
    /\ Cardinality(DOMAIN fetched) >= 3
    /\ "49931" \in FileKeys(file)

\* C4: a resolver call that fails is not caught: the session terminates, save_cache
\* never runs and the backing file keeps the content it had at process start.
C4_FailureSkipsSave ==
    /\ (\E i \in DOMAIN last : last[i].raised) => pc = "crashed"
    /\ pc = "crashed" =>
          /\ saves = 0
          /\ file = fileAtStart

\* a session that fetched pages and then died in a resolver
C4_Witness ==
    /\ pc = "crashed"
    /\ \E i \in DOMAIN last : last[i].raised
    /\ Cardinality(DOMAIN fetched) >= 2
    /\ main_page_url \in DOMAIN CACHE_DICT.v
    /\ ~fileAtStart.exists

\* a nested JSON document and the Python value it decodes to
DocHolds(doc, val) ==
    IF doc.t = "object"
    THEN /\ val.kind = "dict"
         /\ DOMAIN val.v = {doc.members[j].key : j \in 1..Len(doc.members)}
         /\ \A j \in 1..Len(doc.members) : val.v[doc.members[j].key] = doc.members[j].value.s
    ELSE /\ val.kind = "list"
         /\ Len(val.v) = Len(doc.items)
         /\ \A j \in 1..Len(doc.items) : val.v[j] = doc.items[j].s

\* C5: load_cache never fails; a missing file and a file that does not parse both
\* give the empty mapping; a file holding a JSON object gives exactly that mapping.
C5_LoadNeverFails ==
    /\ pc = "crashed" => last # <<>>
    /\ pc = "loaded" =>
          /\ (~file.exists \/ Len(file.text) # 1) => CACHE_DICT = PyDict(EmptyMap)
          /\ (file.exists /\ Len(file.text) = 1 /\ file.text[1] = Garbage) =>
                CACHE_DICT = PyDict(EmptyMap)
          /\ (file.exists /\ Len(file.text) = 1 /\ file.text[1].t = "object") =>
                /\ CACHE_DICT.kind = "dict"
                /\ DOMAIN CACHE_DICT.v = FileKeys(file)
                /\ \A i \in 1..Len(file.text[1].members) :
                      DocHolds(file.text[1].members[i].value,
                               CACHE_DICT.v[file.text[1].members[i].key])

\* a JSON object with a state's site list has just been loaded
C5_Witness ==
    /\ pc = "loaded"
    /\ file.exists
    /\ Len(file.text) = 1
    /\ file.text[1].t = "object"
    /\ UnitStateUrl \in DOMAIN CACHE_DICT.v
    /\ Len(CACHE_DICT.v[UnitStateUrl].v) = 2

\* C6: save_cache followed by load_cache gives back the same keys and values, for
\* every cache a session reaches, and save_cache replaces the file's content.
C6_SaveLoadRoundTrip ==
    /\ IsDict(CACHE_DICT) =>
          LET written == save_cache(file, CACHE_DICT)
              loaded == load_cache(written).value
          IN /\ loaded.kind = "dict"
             /\ DOMAIN loaded.v = DOMAIN CACHE_DICT.v
             /\ \A k \in DOMAIN CACHE_DICT.v : loaded.v[k] = CACHE_DICT.v[k]
             /\ Len(written.text) = 1
    /\ (pc = "loaded" /\ lastSaved # None) => CACHE_DICT = lastSaved

\* the next process has loaded what the previous one saved
C6_Witness ==
    /\ pc = "loaded"
    /\ lastSaved # None
    /\ Cardinality(DOMAIN CACHE_DICT.v) >= 4
    /\ "49931" \in DOMAIN CACHE_DICT.v

\* the documented default policy for one extracted text
Defaulted(tag, sentinel) ==
    IF ~tag.present \/ strip(tag.text) = "" THEN sentinel ELSE strip(tag.text)

\* a call of get_site_instance that missed the cache and returned
ColdSiteCalls ==
    {i \in DOMAIN last :
        last[i].fn = "get_site_instance" /\ ~last[i].had /\ ~last[i].raised}

\* C7: on a miss, each address-card field is its sentinel when the span is absent or
\* blank, and the trimmed text otherwise; the address joins the defaulted locality
\* and the defaulted region.
C7_AddressCardDefaults ==
    \A i \in ColdSiteCalls :
        LET spans == last[i].resp.page.spans
            site == last[i].ret.v
        IN /\ site.zipcode = Defaulted(spans.postalCode, "no zipcode")
           /\ site.phone = Defaulted(spans.telephone, "no phone")
           /\ site.address = Defaulted(spans.addressLocality, "no address")
                                \o ", " \o Defaulted(spans.addressRegion, "no state")

\* a blank postal code and an absent region beside a padded phone and locality
C7_Witness ==
    \E i \in ColdSiteCalls :
        /\ last[i].resp.page.spans.postalCode = Tag(" ")
        /\ last[i].resp.page.spans.addressRegion = NoTag
        /\ last[i].ret.v.zipcode = "no zipcode"
        /\ last[i].ret.v.phone = "(906) 482-0984"
        /\ last[i].ret.v.address = "Houghton, no state"

\* C8 as stated: no field of a NationalSite returned on a miss is the empty string.
C8_NoBlankField ==
    \A i \in ColdSiteCalls :
        \A f \in SiteFields : last[i].ret.v[f] # ""

\* C9 as stated: on a miss on a page that has its hero block and its address card,
\* the call completes, and name and category are the defaulted title and designation.
C9_TitleDesignationDefaults ==
    \A i \in DOMAIN last :
        (/\ last[i].fn = "get_site_instance"
         /\ ~last[i].had
         /\ last[i].resp.ok
         /\ last[i].resp.page.hero
         /\ last[i].resp.page.vcard) =>
            /\ ~last[i].raised
            /\ last[i].ret.v.name = Defaulted(last[i].resp.page.title, "no name")
            /\ last[i].ret.v.category =
                  Defaulted(last[i].resp.page.designation, "no category")

\* the detail URL the code builds for one heading's href
DetailUrl(href) == "https://www.nps.gov" \o href \o "index.htm"

\* C10: on a miss get_sites_for_state stores the detail URLs of the page's headings
\* in page order (so a page with the headings reversed stores the reversed
\* sequence), each URL the base origin, the href and the index-page suffix; on hit
\* and on miss the returned sites match the stored sequence in length and order.
C10_HeadingOrder ==
    /\ \A i \in DOMAIN last :
          LET c == last[i]
          IN c.fn = "get_sites_for_state" =>
                /\ (~c.had /\ c.resp.ok /\ c.resp.page.container) =>
                      /\ c.after.kind = "list"
                      /\ Len(c.after.v) = Len(c.resp.page.headings)
                      /\ \A j \in 1..Len(c.after.v) :
                            c.after.v[j] = DetailUrl(c.resp.page.headings[j])
                /\ ~c.raised =>
                      /\ Len(c.ret.v) = Len(c.after.v)
                      /\ \A j \in 1..Len(c.after.v) :
                            c.ret.v[j].v = CACHE_DICT.v[c.after.v[j]].v
    /\ \A k1, k2 \in DOMAIN fetched \cap {UnitStateUrl, OtherStateUrl} :
          (/\ fetched[k1].container
           /\ fetched[k2].container
           /\ fetched[k2].headings = Reverse(fetched[k1].headings)) =>
              CACHE_DICT.v[k2].v = Reverse(CACHE_DICT.v[k1].v)

\* two state pages with the same two headings in opposite order, both resolved
C10_Witness ==
    /\ pc = "list_end"
    /\ {UnitStateUrl, OtherStateUrl} \subseteq DOMAIN fetched
    /\ fetched[UnitStateUrl].headings = <<"/isro/", "/kewe/">>
    /\ fetched[OtherStateUrl].headings = <<"/kewe/", "/isro/">>
    /\ ~last[1].raised
    /\ Len(last[1].ret.v) = 2
    /\ last[1].ret.v[1].v.name = "Keweenaw"
    /\ last[1].ret.v[2].v.name = "Isle Royale"

\* the line read at the first prompt, lowercased (line 311)
state_name_of(inp) == lower(inp[1])

\* C11: at the first prompt, an input that after lowercasing is neither "exit" nor a
\* key of the state mapping is answered by an error and a new prompt: the loop stays
\* in choosing-state, no resolver is called, no request is sent, the cache and the
\* backing file are unchanged and the process does not terminate.
C11_UnknownStateRejected ==
    [][(/\ pc = "choosing"
        /\ input' # <<>>
        /\ state_name_of(input') # "exit"
        /\ state_name_of(input') \notin DOMAIN states_dict.v)
       => /\ pc' = "choosing"
          /\ last' = <<>>
          /\ CACHE_DICT' = CACHE_DICT
          /\ requests' = requests
          /\ states_dict' = states_dict
          /\ file' = file
          /\ saves' = saves]_vars

C11_Witness ==
    /\ pc = "choosing"
    /\ input = <<"atlantis">>
    /\ "michigan" \in DOMAIN states_dict.v
    /\ last = <<>>
    /\ DOMAIN CACHE_DICT.v # {}

\* the condition of lines 325-326 on the line read at the second prompt
in_range(number, sites) ==
    isdecimal(number) /\ 1 <= int(number) /\ int(number) <= Len(sites.v)

\* C12: at the second prompt, an input that is not "back", not "exit" and not a decimal
\* number between 1 and the number of listed sites is rejected: the loop stays in
\* browsing, no cache lookup and no request happen and the cache is unchanged; a
\* number n in range selects the n-th site of the list, counted from 1 (its zipcode
\* is the key of the nearby-places lookup, when it has one).
C12_SiteNumberChecked ==
    [][(pc = "browsing" /\ input' # <<>>) =>
         LET number == input'[1]
         IN /\ (~in_range(number, nationalsite_list) /\ number \notin {"back", "exit"})
                 => /\ pc' = "browsing"
                    /\ last' = <<>>
                    /\ CACHE_DICT' = CACHE_DICT
                    /\ requests' = requests
                    /\ nationalsite_list' = nationalsite_list
                    /\ file' = file
            /\ in_range(number, nationalsite_list)
                 => LET nth == nationalsite_list.v[int(number)]
                    IN IF nth.v.zipcode = "no zipcode" THEN last' = <<>>
                       ELSE /\ Len(last') = 1
                            /\ last'[1].fn = "get_nearby_places"
                            /\ last'[1].key = nth.v.zipcode]_vars

C12_Witness ==
    /\ pc = "browsing"
    /\ input = <<"3">>
    /\ Len(nationalsite_list.v) = 2
    /\ last = <<>>
    /\ DOMAIN CACHE_DICT.v # {}

\* the links of the page a call was answered with
LinksOf(c) == c.resp.page.links

\* C13: on a miss, build_state_url_dict returns, and caches under the fixed directory
\* page URL, a mapping whose keys are the lowercased visible texts of the links of
\* the keyword-search list and whose value for a key is the base origin followed by
\* the href of the (last) link with that text; a link "Michigan" to
\* /state/mi/index.htm gives "michigan" -> "https://www.nps.gov/state/mi/index.htm".
C13_StateMapping ==
    \A i \in DOMAIN last :
        LET c == last[i]
        IN (c.fn = "build_state_url_dict" /\ ~c.had /\ ~c.raised) =>
              /\ c.key = "https://www.nps.gov/index.htm"
              /\ c.sent = 1
              /\ c.ret.kind = "dict"
              /\ c.after = c.ret
              /\ DOMAIN c.ret.v = {lower(LinksOf(c)[k].text) : k \in DOMAIN LinksOf(c)}
              /\ \A k \in DOMAIN LinksOf(c) :
                    (\A j \in DOMAIN LinksOf(c) :
                        j > k => lower(LinksOf(c)[j].text) # lower(LinksOf(c)[k].text))
                    => c.ret.v[lower(LinksOf(c)[k].text)]
                          = "https://www.nps.gov" \o LinksOf(c)[k].href
              /\ (/\ Len(LinksOf(c)) > 0
                  /\ LinksOf(c)[Len(LinksOf(c))]
                        = [text |-> "Michigan", href |-> "/state/mi/index.htm"])
                  => /\ "michigan" \in DOMAIN c.ret.v
                     /\ c.ret.v["michigan"] = "https://www.nps.gov/state/mi/index.htm"

C13_Witness ==
    /\ pc = "dir_warm"
    /\ Len(last) = 1
    /\ ~last[1].had
    /\ ~last[1].raised
    /\ LinksOf(last[1]) = <<[text |-> "Ohio", href |-> "/state/oh/index.htm"],
                            [text |-> "Michigan", href |-> "/state/mi/index.htm"]>>
    /\ CACHE_DICT.v["https://www.nps.gov/index.htm"].v["michigan"]
          = "https://www.nps.gov/state/mi/index.htm"

\* a call that found its key cached, or was answered by a page with every element
\* the resolver looks for
Answered(c) ==
    \/ c.had
    \/ /\ c.sent = 1
       /\ c.resp.ok
       /\ IF c.fn = "get_site_instance"
          THEN /\ c.resp.page.hero
               /\ c.resp.page.title.present
               /\ c.resp.page.designation.present
               /\ c.resp.page.vcard
          ELSE c.resp.page.container

\* C14: without the API credential the program starts and the directory, site-list
\* and site-detail resolvers work as usual (they return whenever their key is cached
\* or the page is complete, and the process ends abnormally only after a resolver
\* raised); every nearby-places lookup, cached or not, raises without sending a
\* request and ends the session without saving the cache.
C14_MissingKeyFatalOnLookup ==
    ~apiKey =>
       /\ \A i \in DOMAIN last :
             LET c == last[i]
             IN IF c.fn = "get_nearby_places"
                THEN /\ c.raised
                     /\ c.sent = 0
                     /\ c.after = c.before
                     /\ pc = "crashed"
                     /\ saves = 0
                     /\ file = fileAtStart
                ELSE (/\ Answered(c)
                      /\ \A j \in DOMAIN last : j > i => ~last[j].raised)
                     => ~c.raised
       /\ pc = "crashed" => \E i \in DOMAIN last : last[i].raised
       /\ pc \in {"choosing", "browsing"} => states_dict.kind = "dict"
       /\ pc = "browsing" => nationalsite_list.kind = "list of NationalSite"

\* the credential is missing, the three page resolvers have worked, and the lookup
\* of a zipcode that an earlier run cached is fatal all the same
C14_Witness ==
    /\ ~apiKey
    /\ pc = "crashed"
    /\ Len(last) = 1
    /\ last[1].fn = "get_nearby_places"
    /\ last[1].had
    /\ last[1].raised
    /\ Len(nationalsite_list.v) = 2
    /\ "michigan" \in DOMAIN states_dict.v
    /\ file = fileAtStart

\* C15 as stated: get_site_instance writes the entry for site_url only once the whole
\* five-field record has been extracted, so a miss whose extraction fails leaves the
\* cache without an entry for site_url, and a later call never finds a record of
\* placeholders there.
C15_NoEntryAfterFailedExtraction ==
    \A i \in DOMAIN last :
        LET c == last[i]
        IN c.fn = "get_site_instance" =>
              /\ (~c.had /\ c.raised) => c.after = None
              /\ c.had => \E k \in DOMAIN fetched :
                             /\ k = c.key
                             /\ fetched[k].designation.present
                             /\ fetched[k].vcard

\* an exception left the loop: a resolver raised, or print_nearby_places did
Failed(calls) ==
    \E i \in DOMAIN calls :
        \/ calls[i].raised
        \/ /\ calls[i].fn = "get_nearby_places"
           /\ print_nearby_places_raises(calls[i].ret)

\* C16: the loop has the states choosing, browsing and exiting (done after "exit",
\* crashed after an exception) and only these
\* transitions: a known state name moves choosing to browsing; "back" moves browsing
\* to choosing without ending the session and without changing the cache; "exit"
\* moves either state to exiting; a valid site index keeps the loop in browsing.
\* Exiting is reached only by "exit" or by an uncaught failure (the only way a known
\* state name or a valid index leads anywhere else).
C16_LoopTransitions ==
    [][(pc \in {"choosing", "browsing"}) =>
         /\ input' # <<>>
         /\ pc' \in {"choosing", "browsing", "done", "crashed"}
         /\ (pc = "choosing") =>
               /\ (pc' = "browsing") =>
                     /\ state_name_of(input') # "exit"
                     /\ state_name_of(input') \in DOMAIN states_dict.v
               /\ (/\ state_name_of(input') # "exit"
                   /\ state_name_of(input') \in DOMAIN states_dict.v)
                  => \/ (pc' = "browsing" /\ ~Failed(last'))
                     \/ (pc' = "crashed" /\ Failed(last'))
               /\ (state_name_of(input') = "exit") <=> (pc' = "done")
         /\ (pc = "browsing") =>
               /\ (input' = <<"back">>) <=> (pc' = "choosing")
               /\ (input' = <<"back">>) =>
                     /\ CACHE_DICT' = CACHE_DICT
                     /\ requests' = requests
                     /\ file' = file
                     /\ saves' = saves
               /\ (input' = <<"exit">>) <=> (pc' = "done")
               /\ in_range(input'[1], nationalsite_list)
                  => \/ (pc' = "browsing" /\ ~Failed(last'))
                     \/ (pc' = "crashed" /\ Failed(last'))
         /\ (pc' = "crashed") => Failed(last')
         /\ (pc' = "done") => (saves' = saves + 1)]_vars

\* the user went back from a listed state to the first prompt
C16_Witness ==
    /\ pc = "choosing"
    /\ input = <<"back">>
    /\ Len(nationalsite_list.v) = 2
    /\ saves = 0
    /\ DOMAIN requests # {}

\* the keys of the cache this process loaded at line 304
LoadedKeys ==
    LET loaded == load_cache(fileAtStart).value
    IN IF IsDict(loaded) THEN DOMAIN loaded.v ELSE {}

\* C17: within a session, whatever the user typed so far, at most one request has
\* been issued for any cache key and none for a key of the cache loaded at start; a
\* call that finds its key cached (the same state or site selected again) sends
\* nothing.  (It holds with or without a failing resolver: a failure ends the
\* session.)
C17_AtMostOneRequestPerKey ==
    pc # "start" =>
       /\ \A k \in DOMAIN requests : requests[k] <= 1
       /\ \A k \in LoadedKeys : Count(requests, k) = 0
       /\ \A i \in DOMAIN last : last[i].had => last[i].sent = 0

\* a site whose places were fetched earlier in this session is selected again, in a
\* session that started from an empty cache and requested every key it holds once
C17_Witness ==
    /\ pc = "browsing"
    /\ LoadedKeys = {}
    /\ Len(last) = 1
    /\ last[1].fn = "get_nearby_places"
    /\ last[1].had
    /\ Count(requests, last[1].key) = 1
    /\ \A k \in DOMAIN CACHE_DICT.v : Count(requests, k) = 1

\* C18: during a session (from the loaded cache to the end of the process) the cache
\* only grows: no step removes a key, and the value under every key present after a
\* step is the same after every later step (no expiry, eviction or overwrite).
C18_CacheOnlyGrows ==
    [][(pc # "start" /\ pc' # "start" /\ IsDict(CACHE_DICT)) =>
         /\ IsDict(CACHE_DICT')
         /\ \A k \in DOMAIN CACHE_DICT.v :
               /\ k \in DOMAIN CACHE_DICT'.v
               /\ CACHE_DICT'.v[k] = CACHE_DICT.v[k]]_vars

\* a session that loaded a non-empty cache has added keys to it
C18_Witness ==
    /\ pc = "browsing"
    /\ LoadedKeys # {}
    /\ LoadedKeys \subseteq DOMAIN CACHE_DICT.v
    /\ LoadedKeys # DOMAIN CACHE_DICT.v
    /\ \A k \in LoadedKeys : CACHE_DICT.v[k] = load_cache(fileAtStart).value.v[k]

\* C19: selecting a site whose zipcode is "no zipcode" never calls get_nearby_places:
\* the loop stays in browsing, no resolver is called, no request is sent and the
\* cache is unchanged; so no session has "no zipcode" as a cache key or as the key
\* of a request.
C19_NoLookupWithoutZipcode ==
    /\ [](/\ Count(requests, "no zipcode") = 0
          /\ IsDict(CACHE_DICT) => "no zipcode" \notin DOMAIN CACHE_DICT.v
          /\ \A i \in DOMAIN last : last[i].fn = "get_nearby_places"
                                       => last[i].key # "no zipcode")
    /\ [][(/\ pc = "browsing"
           /\ input' # <<>>
           /\ in_range(input'[1], nationalsite_list)
           /\ nationalsite_list.v[int(input'[1])].v.zipcode = "no zipcode")
          => /\ pc' = "browsing"
             /\ last' = <<>>
             /\ CACHE_DICT' = CACHE_DICT
             /\ requests' = requests
             /\ file' = file
             /\ saves' = saves]_vars

\* the second listed site, which has no zipcode, was selected
C19_Witness ==
    /\ pc = "browsing"
    /\ input = <<"2">>
    /\ nationalsite_list.v[2].v.zipcode = "no zipcode"
    /\ last = <<>>
    /\ apiKey

====
